---- MODULE Spec2Model ----
(***************************************************************************)
(* ToyShell: an interactive UART shell run as a FreeRTOS task.             *)
(*                                                                         *)
(* The model follows src/ToyShell.cpp and src/ToyShell.h.  The Shell       *)
(* object's fields are the variables; Shell::begin, Shell::end, ~Shell and *)
(* the statements of Shell::main are the actions.  Bytes are their         *)
(* unsigned char codes, the line buffer `input` is a function on           *)
(* 0 .. SHELL_LINE_MAX-1 and a char* into it is its offset.                *)
(***************************************************************************)
EXTENDS Integers, Sequences, FiniteSets, TLC

\* ------------------------------------------------------------------------
\* Sizes.  The source sets SHELL_LINE_MAX to 2048 and SHELL_ARG_MAX to 32
\* (ToyShell.h:47-48); the model keeps the names and scales the values.
SHELL_LINE_MAX == 6
SHELL_ARG_MAX == 3
\* Most bytes one readBytes call delivers before its timeout.
MaxRead == 2
\* Most loop tasks xTaskCreate can hold at once.
MaxTasks == 2

\* Byte codes the code names: '\0', '\n' and ' '.
NUL == 0
NL == 10
SP == 32
\* The other bytes a transport delivers in the model: 'a' and 'b'.
Letters == {97, 98}
StreamBytes == Letters \cup {SP, NL}
\* No char* (a null pointer, as memchr and bsearch return it).
NullPtr == 0 - 1
\* Content of a byte of `input` that nothing has written yet.
Unwritten == 0 - 2

\* The transports a caller may pass to begin(); NoStream is nullptr.
Streams == {"Serial", "Serial1"}
NoStream == "nullptr"

Offsets == 0 .. (SHELL_LINE_MAX - 1)

\* ------------------------------------------------------------------------
\* C library functions, on the model's buffers and strings.

RECURSIVE memchr(_, _, _, _)
\* memchr(buf + from, c, n): the first offset in from .. from+n-1 holding c,
\* found by looking at the bytes in turn.
memchr(buf, from, c, n) ==
    IF n <= 0 THEN NullPtr
    ELSE IF buf[from] = c THEN from
    ELSE memchr(buf, from + 1, c, n - 1)

\* strlen(buf + i): the distance to the next NUL.
strlen(buf, i) ==
    LET z == memchr(buf, i, NUL, SHELL_LINE_MAX - i)
    IN  IF z = NullPtr THEN SHELL_LINE_MAX - i ELSE z - i

\* The C string at buf + i, as the sequence of its bytes.
CStr(buf, i) == [k \in 1 .. strlen(buf, i) |-> buf[i + k - 1]]

\* memmove(buf + dst, buf + src, n).
memmove(buf, dst, src, n) ==
    [k \in Offsets |->
        IF k >= dst /\ k < dst + n THEN buf[src + (k - dst)] ELSE buf[k]]

RECURSIVE strcmp(_, _)
\* strcmp on two C strings: negative, zero or positive.
strcmp(a, b) ==
    IF a = <<>> /\ b = <<>> THEN 0
    ELSE IF a = <<>> THEN 0 - 1
    ELSE IF b = <<>> THEN 1
    ELSE IF Head(a) < Head(b) THEN 0 - 1
    ELSE IF Head(a) > Head(b) THEN 1
    ELSE strcmp(Tail(a), Tail(b))

\* cmp comparing no further than the entry's name is long, as
\* strncmp(key, name, strlen(name)) would.
cmpPrefix(key, entry) ==
    strcmp(SubSeq(key, 1, IF Len(key) < Len(entry.name) THEN Len(key)
                          ELSE Len(entry.name)),
           entry.name)

\* cmp: the bsearch comparator, key against entry->name.
cmp(key, entry) == strcmp(key, entry.name)

RECURSIVE bsearchNearest(_, _, _, _)
\* A search that ends on the entry nearest the key instead of on NULL, as a
\* lower-bound search does.
bsearchNearest(key, base, lo, hi) ==
    IF lo >= hi THEN (IF lo < Len(base) THEN lo + 1 ELSE Len(base))
    ELSE LET mid == (lo + hi) \div 2
             c == cmp(key, base[mid + 1])
         IN  IF c = 0 THEN mid + 1
             ELSE IF c < 0 THEN bsearchNearest(key, base, lo, mid)
             ELSE bsearchNearest(key, base, mid + 1, hi)

RECURSIVE bsearchRange(_, _, _, _)
\* bsearch's loop on base[lo .. hi-1] (0-based); the 1-based index of the
\* match, or 0 for NULL.
bsearchRange(key, base, lo, hi) ==
    IF lo >= hi THEN 0
    ELSE LET mid == (lo + hi) \div 2
             c == cmp(key, base[mid + 1])
         IN  IF c = 0 THEN mid + 1
             ELSE IF c < 0 THEN bsearchRange(key, base, lo, mid)
             ELSE bsearchRange(key, base, mid + 1, hi)

bsearch(key, base, nmemb) == bsearchRange(key, base, 0, nmemb)

\* ------------------------------------------------------------------------
\* Command tables.  A Command is a name and an entry point; an entry point
\* is told apart by an identifier.
CmdNames == {<<97>>, <<97, 98>>, <<98>>}

\* The entry point registered under a name: 1 for "a", 2 for "ab", 3 for "b".
EntryOf(name) == IF name = <<97>> THEN 1 ELSE IF name = <<97, 98>> THEN 2 ELSE 3

\* The tables a caller may construct a Shell with: "sorted by name in
\* dictionary order", hence no name twice.
SortedTables ==
    {t \in UNION {[1 .. n -> {[name |-> nm, entry |-> EntryOf(nm)] : nm \in CmdNames}] :
                    n \in 0 .. Cardinality(CmdNames)} :
        \A k \in 1 .. (Len(t) - 1) : strcmp(t[k].name, t[k + 1].name) < 0}

\* ------------------------------------------------------------------------
\* Shell::main, one pass of the while loop (ToyShell.cpp:83-139).

\* stream->readBytes(bufhead, n) delivering `chunk`.
readBytes(buf, bufhead, chunk) ==
    [k \in Offsets |->
        IF k >= bufhead /\ k < bufhead + Len(chunk) THEN chunk[k - bufhead + 1]
        ELSE buf[k]]

RECURSIVE splitArgumentsKeepSpace(_, _, _, _, _)
\* The for loop without *space = '\0': the separators stay in the buffer.
splitArgumentsKeepSpace(buf, argv, i, end, toomany) ==
    IF ~(i < end) THEN [buf |-> buf, argv |-> argv, toomany |-> toomany]
    ELSE IF ~(Len(argv) < SHELL_ARG_MAX)
    THEN [buf |-> buf, argv |-> argv,
          toomany |-> Append(toomany, SHELL_ARG_MAX - 1)]
    ELSE splitArgumentsKeepSpace(buf, Append(argv, i), i + strlen(buf, i) + 1, end,
                                 toomany)

RECURSIVE splitArgumentsOffByOne(_, _, _, _, _)
\* The for loop with argc <= SHELL_ARG_MAX as its test.
splitArgumentsOffByOne(buf, argv, i, end, toomany) ==
    IF ~(i < end) THEN [buf |-> buf, argv |-> argv, toomany |-> toomany]
    ELSE IF ~(Len(argv) <= SHELL_ARG_MAX)
    THEN [buf |-> buf, argv |-> argv,
          toomany |-> Append(toomany, SHELL_ARG_MAX - 1)]
    ELSE LET space == memchr(buf, i, SP, end - i)
             buf2 == IF space # NullPtr THEN [buf EXCEPT ![space] = NUL] ELSE buf
         IN  splitArgumentsOffByOne(buf2, Append(argv, i), i + strlen(buf2, i) + 1,
                                    end, toomany)

RECURSIVE splitArgumentsSkipEmpty(_, _, _, _, _)
\* The for loop of a tokenizer that takes a run of spaces for one separator:
\* a token that would be empty is passed over.
splitArgumentsSkipEmpty(buf, argv, i, end, toomany) ==
    IF ~(i < end) THEN [buf |-> buf, argv |-> argv, toomany |-> toomany]
    ELSE IF buf[i] = SP
    THEN splitArgumentsSkipEmpty(buf, argv, i + 1, end, toomany)
    ELSE IF ~(Len(argv) < SHELL_ARG_MAX)
    THEN [buf |-> buf, argv |-> argv,
          toomany |-> Append(toomany, SHELL_ARG_MAX - 1)]
    ELSE LET space == memchr(buf, i, SP, end - i)
             buf2 == IF space # NullPtr THEN [buf EXCEPT ![space] = NUL] ELSE buf
         IN  splitArgumentsSkipEmpty(buf2, Append(argv, i), i + strlen(buf2, i) + 1,
                                     end, toomany)

RECURSIVE splitArgumentsPastEnd(_, _, _, _, _)
\* The for loop with i <= end as its test: a token may begin on the
\* line's newline.
splitArgumentsPastEnd(buf, argv, i, end, toomany) ==
    IF ~(i <= end) THEN [buf |-> buf, argv |-> argv, toomany |-> toomany]
    ELSE IF ~(Len(argv) < SHELL_ARG_MAX)
    THEN [buf |-> buf, argv |-> argv,
          toomany |-> Append(toomany, SHELL_ARG_MAX - 1)]
    ELSE LET space == memchr(buf, i, SP, end - i)
             buf2 == IF space # NullPtr THEN [buf EXCEPT ![space] = NUL] ELSE buf
         IN  splitArgumentsPastEnd(buf2, Append(argv, i), i + strlen(buf2, i) + 1,
                                   end, toomany)

RECURSIVE splitArguments(_, _, _, _, _)
\* The for loop at ToyShell.cpp:104-119.  argv is the sequence of the
\* offsets stored in argv[0 .. argc-1]; toomany lists the index named by
\* each "Too many arguments" line printed.
splitArguments(buf, argv, i, end, toomany) ==
    IF ~(i < end) THEN [buf |-> buf, argv |-> argv, toomany |-> toomany]
    ELSE IF ~(Len(argv) < SHELL_ARG_MAX)
    THEN [buf |-> buf, argv |-> argv,
          toomany |-> Append(toomany, SHELL_ARG_MAX - 1)]
    ELSE LET space == memchr(buf, i, SP, end - i)
             buf2 == IF space # NullPtr THEN [buf EXCEPT ![space] = NUL] ELSE buf
         IN  splitArguments(buf2, Append(argv, i), i + strlen(buf2, i) + 1, end, toomany)

\* What one pass of the loop did, for the properties to read.
\*   kind     "more" (no newline yet), "overflow", "empty" (argc = 0) or "line"
\*   head0    bufhead when the pass began; chunk: the bytes readBytes delivered
\*   end      offset of the newline found, or NullPtr
\*   echo     the string printed by printf("%s\n", input)
\*   argv     offsets stored in argv[0 .. argc-1]; args: the strings there
\*            when the pass reached the dispatch
\*   called   the handler calls made, in order: entry point, argc, and argv
\*            as the strings the handler finds there
\*   nosuch   the names printed by "No such command", in order
\*   toomany  the index named by each "Too many arguments" line printed
\*   toolong  number of "Command line too long" lines printed
\*   prompts  number of prompt() calls
NoPass ==
    [kind |-> "none", head0 |-> 0, chunk |-> <<>>, end |-> NullPtr, echo |-> <<>>,
     argv |-> <<>>, args |-> <<>>, called |-> <<>>, nosuch |-> <<>>,
     toomany |-> <<>>, toolong |-> 0, prompts |-> 0]

\* The overrun test with > for >=.
overrunStrict(bufhead) == bufhead > SHELL_LINE_MAX

\* Line 89: bufhead >= &input[SHELL_LINE_MAX], after bufhead += count.
overrun(bufhead) == bufhead >= SHELL_LINE_MAX

\* The buffer emptied after a line, whatever the read brought after it.
prepareNextEmpty(buf, bufhead, count, end) == [input |-> buf, bufhead |-> 0]

\* Lines 132-138: move what was read past the newline to the front.  The
\* new buffer and the new bufhead.
prepareNext(buf, bufhead, count, end) ==
    LET left == (bufhead + count) - (end + 1)
    IN  [input |-> IF left > 0 THEN memmove(buf, 0, end + 1, left) ELSE buf,
         bufhead |-> left]

\* Line 122: if (argc == 0) continue.
skipsLine(argc) == argc = 0

\* One pass: the new buffer, the new bufhead and the record of the pass.
loopPass(buf, bufhead, chunk, commands, cmd_count) ==
    LET count == Len(chunk)
        buf1 == readBytes(buf, bufhead, chunk)
        end == memchr(buf1, bufhead, NL, count)
        base == [NoPass EXCEPT !.head0 = bufhead, !.chunk = chunk, !.end = end]
    IN  IF end = NullPtr
        THEN \* lines 85-97
             IF overrun(bufhead + count)
             THEN [input |-> buf1, bufhead |-> 0,
                   pass |-> [base EXCEPT !.kind = "overflow", !.toolong = 1,
                                         !.prompts = 1]]
             ELSE [input |-> buf1, bufhead |-> bufhead + count,
                   pass |-> [base EXCEPT !.kind = "more"]]
        ELSE \* lines 99-139
             LET buf2 == [buf1 EXCEPT ![end] = NUL]
                 echo == CStr(buf2, 0)
                 sp == splitArguments(buf2, <<>>, 0, end, <<>>)
                 argc == Len(sp.argv)
                 args == [k \in 1 .. argc |-> CStr(sp.buf, sp.argv[k])]
                 seen == [base EXCEPT !.echo = echo, !.argv = sp.argv, !.args = args,
                                      !.toomany = sp.toomany]
             IN  IF skipsLine(argc)
                 THEN [input |-> sp.buf, bufhead |-> bufhead,
                       pass |-> [seen EXCEPT !.kind = "empty"]]
                 ELSE LET cmd == bsearch(args[1], commands, cmd_count)
                          nxt == prepareNext(sp.buf, bufhead, count, end)
                      IN  [input |-> nxt.input, bufhead |-> nxt.bufhead,
                           pass |-> [seen EXCEPT
                                       !.kind = "line",
                                       !.called = IF cmd # 0
                                                  THEN <<[entry |-> commands[cmd].entry,
                                                          argc |-> argc,
                                                          argv |-> args]>>
                                                  ELSE <<>>,
                                       !.nosuch = IF cmd # 0 THEN <<>>
                                                  ELSE <<args[1]>>,
                                       !.prompts = 1]]

\* ------------------------------------------------------------------------
\* State.
VARIABLES
    stream,     \* Shell::stream: the transport recorded by begin()
    commands,   \* Shell::commands: the table given to the constructor
    cmd_count,  \* Shell::cmd_count
    f_begin,    \* Shell::f_begin (atomic_bool): a loop task is running
    f_end,      \* Shell::f_end (atomic_bool): stop requested
    input,      \* Shell::input[SHELL_LINE_MAX]
    tasks,      \* the tasks created by xTaskCreate: position in Shell::main
                \* and the local bufhead (as an offset into input)
    callerpc,   \* where the caller of begin()/end()/~Shell is
    call,       \* the caller's last call and the state it was made in
    pass        \* what the last pass of a loop did (see NoPass)

vars == <<stream, commands, cmd_count, f_begin, f_end, input, tasks, callerpc,
          call, pass>>

TaskIds == 1 .. MaxTasks

\* Positions of a task: "none" (no such task), "start" (created, Shell::main
\* not yet entered), "check" (at the while condition), "body" (in a pass),
\* "clr_end", "clr_begin", "delete" (lines 143, 144, 145).
NoTask == [pc |-> "none", bufhead |-> 0]

\* Tasks that exist, and tasks that still have statements touching the Shell.
Existing == {t \in TaskIds : tasks[t].pc # "none"}
Touching == {t \in TaskIds : tasks[t].pc \notin {"none", "delete"}}
InLoop == {t \in TaskIds : tasks[t].pc \in {"check", "body"}}

\* The lifecycle state, read off the flags and the tasks: Starting is a
\* task created that has not yet set f_begin.
Lifecycle ==
    IF f_begin THEN (IF f_end THEN "Stopping" ELSE "Running")
    ELSE IF \E t \in TaskIds : tasks[t].pc = "start" THEN "Starting"
    ELSE "Idle"

\* Nothing spawned, or everything spawned is gone, and no flag set.
Quiet == Existing = {} /\ ~f_begin /\ ~f_end

\* The caller's last call: which, the state it was made in, and whether it
\* created a task.
CallRecord(op, spawned) ==
    [op |-> op, life |-> Lifecycle, running |-> f_begin, quiet |-> Quiet,
     spawned |-> spawned]

NoCall ==
    [op |-> "none", life |-> "Idle", running |-> FALSE, quiet |-> TRUE,
     spawned |-> FALSE]

\* The deliveries of one readBytes call: up to MaxRead bytes drawn from `bytes`.
Chunks(bytes) == UNION {[1 .. k -> bytes] : k \in 0 .. MaxRead}

\* Shell(commands, count) / Shell(commands): ToyShell.h:114-130.
ShellInit(table) ==
    /\ stream = NoStream
    /\ commands = table
    /\ cmd_count = Len(table)
    /\ f_begin = FALSE
    /\ f_end = FALSE
    /\ input = [k \in Offsets |-> Unwritten]
    /\ tasks = [t \in TaskIds |-> NoTask]
    /\ callerpc = "idle"
    /\ call = NoCall
    /\ pass = NoPass

\* ------------------------------------------------------------------------
\* The caller: begin, end, ~Shell.

\* begin() without its test of f_begin: a task is created on every call.
BeginUnguarded(s) ==
    /\ callerpc = "idle"
    /\ Existing # TaskIds
    /\ call' = CallRecord("begin", TRUE)
    /\ stream' = s
    /\ LET t == CHOOSE t \in TaskIds : tasks[t].pc = "none"
       IN  tasks' = [tasks EXCEPT ![t] = [pc |-> "start", bufhead |-> 0]]
    /\ UNCHANGED <<commands, cmd_count, f_begin, f_end, input, callerpc, pass>>

\* Shell::begin(stream), ToyShell.cpp:45-50.  xTaskCreate takes a free slot;
\* the model has MaxTasks of them.
Begin(s) ==
    /\ callerpc = "idle"
    /\ f_begin \/ Existing # TaskIds
    /\ call' = CallRecord("begin", ~f_begin)
    /\ IF ~f_begin
       THEN /\ stream' = s
            /\ LET t == CHOOSE t \in TaskIds : tasks[t].pc = "none"
               IN  tasks' = [tasks EXCEPT ![t] = [pc |-> "start", bufhead |-> 0]]
       ELSE UNCHANGED <<stream, tasks>>
    /\ UNCHANGED <<commands, cmd_count, f_begin, f_end, input, callerpc, pass>>

\* Shell::end(), line 53: atomic_store(&f_end, 1).  dtor tells ~Shell's call
\* (line 42) from a plain one.
End(dtor) ==
    /\ callerpc = "idle"
    /\ f_end' = TRUE
    /\ callerpc' = IF dtor THEN "dtor_wait" ELSE "end_wait"
    /\ call' = CallRecord(IF dtor THEN "dtor" ELSE "end", FALSE)
    /\ UNCHANGED <<stream, commands, cmd_count, f_begin, input, tasks, pass>>

\* Shell::end(), lines 54-55: one test of f_begin; taskYIELD() when it is
\* set, return when it is clear.  After ~Shell returns the object is gone.
EndPoll ==
    /\ callerpc \in {"end_wait", "dtor_wait"}
    /\ callerpc' = IF f_begin THEN callerpc
                   ELSE IF callerpc = "dtor_wait" THEN "gone" ELSE "idle"
    /\ UNCHANGED <<stream, commands, cmd_count, f_begin, f_end, input, tasks,
                   call, pass>>

\* ------------------------------------------------------------------------
\* A loop task: Shell::start -> Shell::main.

\* Lines 70-79: atomic_store(&f_begin, 1), bufhead = input, prompt.
TaskStart(t) ==
    /\ tasks[t].pc = "start"
    /\ f_begin' = TRUE
    /\ tasks' = [tasks EXCEPT ![t] = [pc |-> "check", bufhead |-> 0]]
    /\ pass' = [NoPass EXCEPT !.kind = "start", !.prompts = 1]
    /\ UNCHANGED <<stream, commands, cmd_count, f_end, input, callerpc, call>>

\* Line 81: while (f_end == 0).
TaskCheck(t) ==
    /\ tasks[t].pc = "check"
    /\ tasks' = [tasks EXCEPT ![t].pc = IF f_end = FALSE THEN "body" ELSE "clr_end"]
    /\ UNCHANGED <<stream, commands, cmd_count, f_begin, f_end, input, callerpc,
                   call, pass>>

\* The length readBytes is asked for with the buffer's size taken whole.
readRoomWhole(bufhead) == SHELL_LINE_MAX

\* Line 83: the length readBytes is asked for,
\* SHELL_LINE_MAX - (bufhead - input).
readRoom(bufhead) == SHELL_LINE_MAX - bufhead

\* A pass that gives the loop up after discarding an overlong line.
TaskPassFatal(t, chunks) ==
    /\ tasks[t].pc = "body"
    /\ \E chunk \in chunks :
         /\ Len(chunk) <= readRoom(tasks[t].bufhead)
         /\ \E r \in {loopPass(input, tasks[t].bufhead, chunk, commands, cmd_count)} :
              /\ input' = r.input
              /\ tasks' = [tasks EXCEPT ![t] =
                             [pc |-> IF r.pass.kind = "overflow" THEN "clr_end"
                                     ELSE "check",
                              bufhead |-> r.bufhead]]
              /\ pass' = r.pass
    /\ UNCHANGED <<stream, commands, cmd_count, f_begin, f_end, callerpc, call>>

\* Lines 83-139: one pass, readBytes delivering one of `chunks`, no longer
\* than it was asked for.
TaskPass(t, chunks) ==
    /\ tasks[t].pc = "body"
    /\ \E chunk \in chunks :
         /\ Len(chunk) <= readRoom(tasks[t].bufhead)
         /\ \E r \in {loopPass(input, tasks[t].bufhead, chunk, commands, cmd_count)} :
              /\ input' = r.input
              /\ tasks' = [tasks EXCEPT ![t] = [pc |-> "check", bufhead |-> r.bufhead]]
              /\ pass' = r.pass
    /\ UNCHANGED <<stream, commands, cmd_count, f_begin, f_end, callerpc, call>>

\* Line 143: atomic_store(&f_end, 0).
TaskClearEnd(t) ==
    /\ tasks[t].pc = "clr_end"
    /\ f_end' = FALSE
    /\ tasks' = [tasks EXCEPT ![t].pc = "clr_begin"]
    /\ UNCHANGED <<stream, commands, cmd_count, f_begin, input, callerpc, call, pass>>

\* Line 144: atomic_store(&f_begin, 0).
TaskClearBegin(t) ==
    /\ tasks[t].pc = "clr_begin"
    /\ f_begin' = FALSE
    /\ tasks' = [tasks EXCEPT ![t].pc = "delete"]
    /\ UNCHANGED <<stream, commands, cmd_count, f_end, input, callerpc, call, pass>>

\* Line 145: vTaskDelete(NULL).
TaskDelete(t) ==
    /\ tasks[t].pc = "delete"
    /\ tasks' = [tasks EXCEPT ![t] = NoTask]
    /\ UNCHANGED <<stream, commands, cmd_count, f_begin, f_end, input, callerpc,
                   call, pass>>

\* ------------------------------------------------------------------------
\* Specifications.

\* The whole Shell: the caller's calls interleaved with the loop tasks.  The
\* transport delivers nothing, a complete line, or a lone newline.
LifeTables == {t \in SortedTables : Len(t) = 2 /\ t[1].name = <<97>>}
LifeChunks == {<<>>, <<97, NL>>, <<NL, 98>>}

Init == \E table \in LifeTables : ShellInit(table)

TaskStep(t) ==
    \/ TaskStart(t)
    \/ TaskCheck(t)
    \/ TaskPass(t, LifeChunks)
    \/ TaskClearEnd(t)
    \/ TaskClearBegin(t)
    \/ TaskDelete(t)

Next ==
    \/ \E s \in Streams : Begin(s)
    \/ \E dtor \in BOOLEAN : End(dtor)
    \/ EndPoll
    \/ \E t \in TaskIds : TaskStep(t)

Spec == Init /\ [][Next]_vars

\* The scheduler keeps scheduling every task and the yielding caller.
FairSpec ==
    /\ Spec
    /\ \A t \in TaskIds : WF_vars(TaskStep(t))
    /\ WF_vars(EndPoll)

\* The loop alone: one task already at the while condition, no caller, and
\* every delivery of up to MaxRead bytes out of 'a', ' ' and '\n'.
LoopTable == CHOOSE t \in SortedTables : Len(t) = Cardinality(CmdNames)

LoopStarted(table) ==
    /\ stream = "Serial"
    /\ commands = table
    /\ cmd_count = Len(table)
    /\ f_begin = TRUE
    /\ f_end = FALSE
    /\ input = [k \in Offsets |-> Unwritten]
    /\ tasks = [t \in TaskIds |->
                  IF t = 1 THEN [pc |-> "check", bufhead |-> 0] ELSE NoTask]
    /\ callerpc = "idle"
    /\ call = [NoCall EXCEPT !.op = "begin", !.spawned = TRUE]
    /\ pass = [NoPass EXCEPT !.kind = "start", !.prompts = 1]

LoopInit == LoopStarted(LoopTable)

\* What a read may deliver to the loop: up to MaxRead bytes of "a", space
\* and newline.
LoopChunks == Chunks({97, SP, NL})

LoopNext ==
    \/ TaskCheck(1)
    \/ TaskPass(1, LoopChunks)

LoopSpec == LoopInit /\ [][LoopNext]_vars

\* One line: every sorted table, and a first pass whose read delivers one
\* whole line (any bytes but '\n', then '\n') into the empty buffer.
Lines ==
    {l \o <<NL>> : l \in UNION {[1 .. k -> StreamBytes \ {NL}] :
                                  k \in 0 .. (SHELL_LINE_MAX - 1)}}

LineInit == \E table \in SortedTables : LoopStarted(table)

LineNext ==
    \/ TaskCheck(1)
    \/ pass.kind = "start" /\ TaskPass(1, Lines)

LineSpec == LineInit /\ [][LineNext]_vars

\* One loop task, already started, its caller free to call end(): the reads
\* deliver "a", two spaces or a newline, which make up the known command
\* "a", the unknown "aa", the empty line, lines of too many tokens and
\* lines too long.
StopChunks == {<<97>>, <<SP, SP>>, <<NL>>}

StopNext ==
    \/ End(FALSE)
    \/ EndPoll
    \/ TaskCheck(1)
    \/ TaskPass(1, StopChunks)
    \/ TaskClearEnd(1)
    \/ TaskClearBegin(1)
    \/ TaskDelete(1)

StopSpec == LoopInit /\ [][StopNext]_vars

\* ------------------------------------------------------------------------
\* Properties of the lifecycle (Spec, FairSpec).

\* C1: a begin() call made while the lifecycle is not Idle (Starting,
\* Running or Stopping) creates no task, so that no two loop tasks ever
\* work on the Shell at once.
C1_BeginOnlyFromIdle ==
    /\ (call.op = "begin" /\ call.life # "Idle") => ~call.spawned
    /\ Cardinality(Touching) <= 1

\* C2: when end() (or ~Shell) returns, no loop task is left that still has
\* a statement touching the Shell.
C2_EndReturnsAfterLoopExit ==
    [][(callerpc \in {"end_wait", "dtor_wait"} /\ callerpc' \in {"idle", "gone"})
          => Touching' = {}]_vars

\* C3: every call of end() (or ~Shell) eventually returns.
C3_EndAlwaysReturns ==
    (callerpc \in {"end_wait", "dtor_wait"}) ~> (callerpc \in {"idle", "gone"})

\* C4: a begin() call made while the running flag is set creates no task and
\* leaves the recorded transport and both flags as they are.
C4_BeginNoopWhileRunning ==
    [][\A s \in Streams :
          (f_begin /\ Begin(s))
              => /\ tasks' = tasks
                 /\ stream' = stream
                 /\ f_begin' = f_begin
                 /\ f_end' = f_end]_vars

\* C4 happens: begin() was called with the running flag set while a task
\* was in its loop, on a transport other than the recorded one.
C4_Witness ==
    /\ call.op = "begin"
    /\ call.running
    /\ ~call.spawned
    /\ f_begin
    /\ InLoop # {}
    /\ stream = "Serial"

\* C5: an end() call made while nothing is spawned and no flag is set leaves
\* the stop request clear once it has returned.
C5_EndWhileIdleLeavesIdle ==
    (call.op = "end" /\ call.quiet /\ callerpc = "idle") => ~f_end

\* ------------------------------------------------------------------------
\* Properties of the loop (LoopSpec, LineSpec).

\* What a line's tokens are, apart from the code: the pieces between its
\* spaces.  Pieces has one piece more than the line has spaces.
RECURSIVE Pieces(_)
Pieces(line) ==
    LET spaces == {k \in 1 .. Len(line) : line[k] = SP}
    IN  IF spaces = {} THEN <<line>>
        ELSE LET p == CHOOSE k \in spaces : \A j \in spaces : k <= j
             IN  <<SubSeq(line, 1, p - 1)>> \o Pieces(SubSeq(line, p + 1, Len(line)))

\* The tokens of a line: its pieces, where a space that ends the line ends
\* the last token and begins none; the empty line has no token.
Tokens(line) ==
    IF line = <<>> THEN <<>>
    ELSE IF line[Len(line)] = SP THEN SubSeq(Pieces(line), 1, Len(Pieces(line)) - 1)
    ELSE Pieces(line)

RECURSIVE Join(_)
\* The strings of a sequence joined with single spaces.
Join(strs) ==
    IF strs = <<>> THEN <<>>
    ELSE IF Len(strs) = 1 THEN strs[1]
    ELSE strs[1] \o <<SP>> \o Join(Tail(strs))

FirstN(seq, n) == SubSeq(seq, 1, IF Len(seq) < n THEN Len(seq) ELSE n)

\* The last pass found a newline: its line is what it echoed.
LineRead == pass.end # NullPtr

\* C6: on a sorted table, a handler is invoked iff an entry's name equals the
\* line's first token; it is that entry's handler, invoked once, with the
\* tokens handed to the dispatcher as argv and their number as argc.
C6_DispatchExactMatch ==
    LET line == SubSeq(pass.chunk, 1, Len(pass.chunk) - 1)
        toks == FirstN(Tokens(line), SHELL_ARG_MAX)
        hits == {k \in 1 .. Len(commands) : commands[k].name = toks[1]}
    IN  (LineRead /\ toks # <<>>)
            => /\ hits = {} => pass.called = <<>>
               /\ \A k \in hits :
                    pass.called = <<[entry |-> commands[k].entry,
                                     argc |-> Len(toks), argv |-> toks]>>

\* C6 happens: on a table of three the last entry's handler ran with two
\* arguments, and so the search went right of the middle.
C6_Witness ==
    /\ LineRead
    /\ Len(commands) = 3
    /\ pass.called # <<>>
    /\ pass.called[1].entry = commands[3].entry
    /\ pass.called[1].argc = 2

\* C7 as stated: whenever a line has at most SHELL_ARG_MAX pieces, joining
\* the tokenizer's tokens with single spaces gives back the line.
C7_RoundTrip ==
    (LineRead /\ Len(Pieces(pass.echo)) <= SHELL_ARG_MAX)
        => Join(pass.args) = pass.echo

\* C7 amended: whenever a line has at most SHELL_ARG_MAX tokens, joining the
\* tokenizer's tokens with single spaces gives back the line when it does
\* not end in a space, and the line less its last space when it does.
C7_RoundTripButFinalSpace ==
    (LineRead /\ Len(Tokens(pass.echo)) <= SHELL_ARG_MAX)
        => Join(pass.args) =
              IF pass.echo # <<>> /\ pass.echo[Len(pass.echo)] = SP
              THEN SubSeq(pass.echo, 1, Len(pass.echo) - 1)
              ELSE pass.echo

\* C7 happens: a line of two tokens that ends in a space, and one that
\* begins with a space, went through the tokenizer untruncated.
C7_Witness ==
    /\ LineRead
    /\ pass.toomany = <<>>
    /\ Len(pass.args) = 2
    /\ Len(pass.echo) >= 3
    /\ pass.echo[Len(pass.echo)] = SP

\* C8: after a pass that found a newline, the bytes its read delivered
\* after that newline are the first bytes of the buffer, and bufhead is
\* just past them.
C8_BytesAfterNewlineKept ==
    LET rest == SubSeq(pass.chunk, pass.end - pass.head0 + 2, Len(pass.chunk))
    IN  LineRead
            => /\ tasks[1].bufhead = Len(rest)
               /\ \A k \in 1 .. Len(rest) : input[k - 1] = rest[k]

\* C9: a pass whose read brings the bytes accumulated to exactly
\* SHELL_LINE_MAX without a newline prints "line too long" once, resets
\* bufhead to 0, echoes, tokenizes and dispatches nothing, and the task
\* stays in its loop.
C9_OverflowDiscards ==
    (pass.kind \notin {"none", "start"} /\ ~LineRead
       /\ pass.head0 + Len(pass.chunk) = SHELL_LINE_MAX)
        => /\ pass.toolong = 1
           /\ tasks[1].bufhead = 0
           /\ pass.echo = <<>> /\ pass.args = <<>>
           /\ pass.called = <<>> /\ pass.nosuch = <<>>
           /\ tasks[1].pc \in {"check", "body"}

\* C9 happens: the buffer filled up over more than one read.
C9_Witness ==
    /\ pass.kind = "overflow"
    /\ pass.head0 > 0
    /\ pass.head0 + Len(pass.chunk) = SHELL_LINE_MAX

\* C10: a line of more than SHELL_ARG_MAX tokens gets one "Too many
\* arguments" line naming SHELL_ARG_MAX - 1 and is dispatched on its first
\* SHELL_ARG_MAX tokens; a line of at most SHELL_ARG_MAX tokens gets none.
C10_TooManyArguments ==
    LET toks == Tokens(pass.echo)
    IN  LineRead
          => IF Len(toks) > SHELL_ARG_MAX
             THEN /\ pass.toomany = <<SHELL_ARG_MAX - 1>>
                  /\ pass.kind = "line"
                  /\ pass.args = FirstN(toks, SHELL_ARG_MAX)
                  /\ Len(pass.called) + Len(pass.nosuch) = 1
                  /\ \A k \in 1 .. Len(pass.called) :
                       /\ pass.called[k].argc = SHELL_ARG_MAX
                       /\ pass.called[k].argv = FirstN(toks, SHELL_ARG_MAX)
             ELSE pass.toomany = <<>>

\* C10 happens: a truncated line was dispatched to a handler.
C10_Witness ==
    /\ LineRead
    /\ Len(Tokens(pass.echo)) > SHELL_ARG_MAX
    /\ pass.toomany # <<>>
    /\ pass.called # <<>>

\* ------------------------------------------------------------------------
\* Diagnostics, prompts and the bounds of the buffers.

\* No entry of the table bears this name.
Unknown(name) == \A k \in 1 .. cmd_count : commands[k].name # name

\* C11: a non-empty line whose first token is no name of the table calls no
\* handler, prints "No such command" once with that first token, prints the
\* prompt once, and leaves the task in its loop, the buffer ready for the
\* next read.
C11_UnknownCommand ==
    (LineRead /\ pass.echo # <<>> /\ Unknown(Tokens(pass.echo)[1]))
        => /\ pass.called = <<>>
           /\ pass.nosuch = <<Tokens(pass.echo)[1]>>
           /\ pass.prompts = 1
           /\ tasks[1].pc \in {"check", "body"}
           /\ tasks[1].bufhead = 0

\* C11 happens: a name that is a proper prefix of an entry's and the prefix
\* of no other is looked up and refused.
C11_Witness ==
    /\ LineRead
    /\ cmd_count = 2
    /\ pass.args = <<<<97>>, <<98>>>>
    /\ commands[1].name = <<97, 98>>
    /\ pass.nosuch = <<<<97>>>>

\* C12: the prompt is printed once when the loop starts, and once by every
\* pass that consumes a newline-terminated line, the empty line included.
C12_PromptAfterEachLine ==
    /\ pass.kind = "start" => pass.prompts = 1
    /\ LineRead => pass.prompts = 1

\* C13: the write cursor stays within 0 .. SHELL_LINE_MAX, the next read is
\* issued for no more than SHELL_LINE_MAX - bufhead bytes, and the bytes the
\* last read delivered and the '\0' put on its newline lie inside the buffer.
C13_LineBufferBound ==
    /\ tasks[1].bufhead \in 0 .. SHELL_LINE_MAX
    /\ tasks[1].bufhead + readRoom(tasks[1].bufhead) <= SHELL_LINE_MAX
    /\ pass.head0 + Len(pass.chunk) <= SHELL_LINE_MAX
    /\ pass.end # NullPtr => pass.end \in Offsets

\* C13 happens: a read into a partly filled buffer reaches its last byte,
\* which is the line's newline.
C13_Witness ==
    /\ pass.head0 > 0
    /\ pass.head0 + Len(pass.chunk) = SHELL_LINE_MAX
    /\ pass.end = SHELL_LINE_MAX - 1

\* ------------------------------------------------------------------------
\* Leaving the loop (StopSpec).

\* C14: a task leaves its loop only by the test of the while condition
\* finding f_end set, and then for the cleanup; no pass, whatever it read
\* (an overlong line, too many tokens, an unknown command, an empty line, a
\* handler's call), takes the task out of the loop.
C14_LeavesOnlyOnStop ==
    [][\A t \in TaskIds :
         (tasks[t].pc \in {"check", "body"} /\ tasks'[t].pc \notin {"check", "body"})
             => /\ tasks[t].pc = "check"
                /\ f_end
                /\ tasks'[t].pc = "clr_end"]_vars

\* C14 happens: the task has left its loop on f_end, its last pass having
\* discarded an overlong line.
C14_Witness ==
    /\ tasks[1].pc = "clr_end"
    /\ pass.toolong = 1

\* ------------------------------------------------------------------------
\* Separators and token positions.

\* The spaces of a line that have a byte after them, by their position
\* (1-based in the line, which is the 0-based offset of the byte after).
Separators(line) == {j \in 1 .. (Len(line) - 1) : line[j] = SP}

\* The bytes of a line from offset `from` up to the next space or the end.
Word(line, from) ==
    LET stops == {j \in (from + 1) .. Len(line) : line[j] = SP}
        stop == IF stops = {} THEN Len(line) + 1
                ELSE CHOOSE j \in stops : \A k \in stops : j <= k
    IN  SubSeq(line, from + 1, stop - 1)

\* C15: in a non-empty line with fewer than SHELL_ARG_MAX separators every
\* space followed by a byte separates: a token begins at offset 0 and right
\* after each such space and nowhere else, and each token is the bytes from
\* there to the next space, so that a space right after a space gives the
\* empty token.
C15_SpacesSeparate ==
    (LineRead /\ pass.echo # <<>>
       /\ Cardinality(Separators(pass.echo)) < SHELL_ARG_MAX)
        => /\ Len(pass.args) = Cardinality(Separators(pass.echo)) + 1
           /\ {pass.argv[k] : k \in 1 .. Len(pass.argv)}
                  = {0} \cup Separators(pass.echo)
           /\ \A k \in 1 .. Len(pass.args) :
                  pass.args[k] = Word(pass.echo, pass.argv[k])

\* C15 happens: "a  b", two spaces between two words, gives "a", "", "b".
C15_Witness ==
    /\ LineRead
    /\ pass.echo = <<97, SP, SP, 98>>
    /\ pass.args = <<<<97>>, <<>>, <<98>>>>

\* ------------------------------------------------------------------------
\* What a line leaves behind.

\* The bytes the last read delivered after the newline it found.
AfterNewline == SubSeq(pass.chunk, pass.end - pass.head0 + 2, Len(pass.chunk))

\* C16: after a line of more than SHELL_ARG_MAX tokens (the "Too many
\* arguments" line printed), the bytes read after its newline are the first
\* bytes of the buffer and bufhead is just past them: the next line begins
\* with them, not with the tokens discarded.
C16_TruncationKeepsRest ==
    (LineRead /\ pass.toomany # <<>>)
        => /\ tasks[1].bufhead = Len(AfterNewline)
           /\ \A k \in 1 .. Len(AfterNewline) : input[k - 1] = AfterNewline[k]

\* C16 happens: a truncated line whose newline was not the last byte read.
C16_Witness ==
    /\ LineRead
    /\ pass.toomany # <<>>
    /\ AfterNewline # <<>>

\* ------------------------------------------------------------------------
\* The stop protocol.

\* The caller is inside end() (or ~Shell), which it called with the running
\* flag set and no stop requested.
StopsRunning == callerpc \in {"end_wait", "dtor_wait"} /\ call.life = "Running"

\* C17: while the caller is inside an end() that found the loop Running, no
\* task passes the while test into another iteration (the iteration in
\* progress is the last); f_begin is cleared only with f_end clear; and when
\* that end() returns both flags are clear and no task is in its loop.
C17_StopProtocol ==
    [][/\ (f_begin /\ ~f_begin') => ~f_end
       /\ StopsRunning
            => /\ \A t \in TaskIds : ~(tasks[t].pc = "check" /\ tasks'[t].pc = "body")
               /\ callerpc' \in {"idle", "gone"}
                    => (~f_begin' /\ ~f_end' /\ InLoop' = {})]_vars

\* ------------------------------------------------------------------------
\* Newlines.

\* C18: every newline ends its own line: the line a pass echoes and hands
\* to the tokenizer holds no newline byte.
C18_NewlineEndsItsLine ==
    LineRead => \A k \in 1 .. Len(pass.echo) : pass.echo[k] # NL

\* ------------------------------------------------------------------------
\* The token vector.

\* C19: when a handler is called, argc is in 1 .. SHELL_ARG_MAX, it is the
\* number of slots of argv written (so none at SHELL_ARG_MAX or beyond),
\* and the slots hold strictly increasing offsets of the buffer, all before
\* the line's newline.
C19_TokenVectorSafe ==
    pass.called # <<>>
        => /\ pass.called[1].argc \in 1 .. SHELL_ARG_MAX
           /\ Len(pass.argv) = pass.called[1].argc
           /\ \A k \in 1 .. Len(pass.argv) : pass.argv[k] \in 0 .. (pass.end - 1)
           /\ \A k \in 1 .. (Len(pass.argv) - 1) : pass.argv[k] < pass.argv[k + 1]

\* C19 happens: a handler is called with every slot of argv in use, on a
\* line that had more tokens.
C19_Witness ==
    /\ pass.called # <<>>
    /\ Len(pass.argv) = SHELL_ARG_MAX
    /\ pass.toomany # <<>>
====
